---- MODULE Spec2Model ----
(***************************************************************************)
(* A model of ember-rest.js: the request adapter (Ember.ajaxPromise and    *)
(* Ember.ResourceAdapter), the model class Ember.Resource and the          *)
(* collection controller Ember.ResourceController.                         *)
(*                                                                         *)
(* JavaScript values are tagged records, so that values of different       *)
(* JavaScript types can be compared:                                       *)
(*   [t |-> "undef"]            undefined                                  *)
(*   [t |-> "str", s |-> ...]   a string (ids and names)                   *)
(*   [t |-> "fn"]               a function (a method of the instance)      *)
(*   [t |-> "obj", o |-> f]     a plain object, f its own keys and values  *)
(*   [t |-> "ref", r |-> n]     the array or object stored in heap cell n  *)
(* A resource instance is a function from property names to values.        *)
(***************************************************************************)
EXTENDS Integers, Sequences, FiniteSets, TLC

VARIABLES
    ctl,        \* ResourceController: content, the instances created, the destroyed ones
    inflight,   \* findAll requests issued and not yet settled
    issued,     \* number of findAll requests issued so far
    hist,       \* the last controller operation, its argument and the state before it
    res,        \* a single Ember.Resource instance
    hasValidate,\* whether the resource defines validate()
    pending,    \* resource requests issued and not yet settled
    sent,       \* the number of resource requests handed to jQuery.ajax, and the last one
    settled,    \* how the promise of the last finished resource operation settled
    src,        \* pure operations: the source resource
    dst,        \* pure operations: the resulting resource
    heap,       \* pure operations: the mutable arrays and objects, by reference
    arg,        \* pure operations: the JSON argument
    pc          \* pure operations: the operation that produced dst

vars == <<ctl, inflight, issued, hist, res, hasValidate, pending, sent, settled,
          src, dst, heap, arg, pc>>
ctlVars == <<ctl, inflight, issued, hist>>
resVars == <<res, hasValidate, pending, sent, settled>>
pureVars == <<src, dst, heap, arg, pc>>

----------------------------------------------------------------------------
(* Bounds *)
MaxLen == 2        \* longest findAll / loadAll array
MaxObjs == 3       \* resource instances a controller behaviour creates
MaxFindAll == 2    \* findAll requests a behaviour issues
MaxSent == 2       \* resource operations a behaviour starts
MaxMutations == 2  \* mutations applied to a copy

----------------------------------------------------------------------------
(* JavaScript values *)
UNDEF == [t |-> "undef"]
FN == [t |-> "fn"]
Str(s) == [t |-> "str", s |-> s]
Obj(f) == [t |-> "obj", o |-> f]
Ref(n) == [t |-> "ref", r |-> n]

\* Ember.isEmpty: undefined, null and the empty string are empty
isEmpty(v) == v = UNDEF \/ v = Str("")

\* JavaScript truthiness of the values the model uses
Truthy(v) == ~(v = UNDEF \/ v = Str(""))

----------------------------------------------------------------------------
(* The resource type: a subclass of Ember.Resource for "/contacts" *)
resourceIdField == "id"
resourceUrl == "/contacts"
resourceName == "contact"
resourceProperties == <<"name", "tags">>

\* Names a data value can be stored under, and names of methods
DataKeys == {"id", "name", "tags", "contact"}
MethodKeys == {"fullName", "prop"}
Keys == DataKeys \cup MethodKeys

\* this.constructor.create() of a type whose methods are ms
Create(ms) == [k \in Keys |-> IF k \in ms THEN FN ELSE UNDEF]

\* The contact type defines one method of its own, fullName
ContactMethods == {"fullName"}
NewContact == Create(ContactMethods)

get(self, k) == self[k]
set(self, k, v) == [self EXCEPT ![k] = v]

\* Ember.Resource.deserializeProperty
deserializeProperty(self, prop, value) ==
    IF self["prop"] # FN THEN set(self, prop, value) ELSE self

\* the for-in loop of Ember.Resource.deserialize over the own keys of json
RECURSIVE deserializeKeys(_, _, _)
deserializeKeys(self, json, ks) ==
    IF ks = {} THEN self
    ELSE LET prop == CHOOSE k \in ks : TRUE
         IN deserializeKeys(deserializeProperty(self, prop, json[prop]), json, ks \ {prop})

\* Ember.Resource.deserialize
deserialize(self, json) == deserializeKeys(self, json, DOMAIN json)

\* Ember.Resource.serializeProperty
serializeProperty(self, prop) == get(self, prop)

\* serialize without the nesting under resourceName
serializeFlat(self) ==
    [p \in {resourceProperties[i] : i \in 1..Len(resourceProperties)} |->
        serializeProperty(self, p)]

\* Ember.Resource.serialize
serialize(self) ==
    [n \in {resourceName} |->
        Obj([p \in {resourceProperties[i] : i \in 1..Len(resourceProperties)} |->
                serializeProperty(self, p)])]

\* Ember.Resource._resourceId
resourceId(self) == get(self, resourceIdField)

\* isNew testing for undefined only
isNewUndefinedOnly(self) == resourceId(self) = UNDEF

\* Ember.Resource.isNew
isNew(self) == isEmpty(resourceId(self))

\* _resourceUrl testing the id for undefined only
resourceUrlUndefinedOnly(self) ==
    IF resourceId(self) # UNDEF THEN <<resourceUrl, "/", resourceId(self).s>>
    ELSE <<resourceUrl>>

\* Ember.Resource._resourceUrl: the url as the list of the strings concatenated
resourceUrlOf(self) ==
    IF ~isEmpty(resourceId(self)) THEN <<resourceUrl, "/", resourceId(self).s>>
    ELSE <<resourceUrl>>

----------------------------------------------------------------------------
(* Ember.ResourceController *)

\* JSON objects a list endpoint returns for one resource
JsonItems == { [k \in {"id"} |-> Str("1")],
               [k \in {"id", "name"} |-> IF k = "id" THEN Str("2") ELSE Str("ann")] }

RECURSIVE SeqsUpTo(_, _)
SeqsUpTo(S, n) ==
    IF n = 0 THEN {<<>>}
    ELSE LET shorter == SeqsUpTo(S, n - 1)
         IN shorter \cup {Append(s, x) : s \in {q \in shorter : Len(q) = n - 1}, x \in S}

JsonArrays == SeqsUpTo(JsonItems, MaxLen)

Range(s) == {s[i] : i \in 1..Len(s)}

\* load putting the new resource first
loadFirst(c, json) ==
    LET resource == deserialize(NewContact, json)
        ident == Len(c.objs) + 1
    IN [c EXCEPT !.objs = Append(c.objs, resource),
                 !.content = <<ident>> \o c.content]

\* Ember.ResourceController.load, on the controller state c
load(c, json) ==
    LET resource == deserialize(NewContact, json)
        ident == Len(c.objs) + 1
    IN [c EXCEPT !.objs = Append(c.objs, resource),
                 !.content = Append(c.content, ident)]

\* Ember.ResourceController.loadAll
RECURSIVE loadFrom(_, _, _)
loadFrom(c, json, i) ==
    IF i > Len(json) THEN c ELSE loadFrom(load(c, json[i]), json, i + 1)

loadAll(c, json) == loadFrom(c, json, 1)

\* clearAll that never destroys
clearAllKeeping(c, keepObjectsAlive) == [c EXCEPT !.content = <<>>]

\* Ember.ResourceController.clearAll
clearAll(c, keepObjectsAlive) ==
    [c EXCEPT !.destroyed = IF ~keepObjectsAlive THEN c.destroyed \cup Range(c.content)
                            ELSE c.destroyed,
              !.content = <<>>]

\* a findAll callback that does not clear
findAllThenMerging(c, json) == loadAll(c, json)

\* the callback findAll chains on the request
findAllThen(c, json) == loadAll(clearAll(c, FALSE), json)

\* the controller after init: clearAll has run once on no content
InitController == [content |-> <<>>, objs |-> <<>>, destroyed |-> {}]

\* A findAll request in flight: n is its issue number. late (the managed set holds
\* a resource that load added while the request was in flight) and beaten (the
\* requests that resolved while it was in flight) record the interleaving for the
\* properties below.
Request(n) == [n |-> n, late |-> FALSE, beaten |-> {}]
NoRequest == Request(0)
Late(reqs, b) == {[q EXCEPT !.late = b] : q \in reqs}

NoHist == [op |-> "init", json |-> <<>>, before |-> InitController, req |-> NoRequest,
           keep |-> FALSE]

\* load(json) called by the application
Load(json) ==
    /\ Len(ctl.objs) + 1 <= MaxObjs
    /\ ctl' = load(ctl, json)
    /\ hist' = [NoHist EXCEPT !.op = "load", !.json = <<json>>, !.before = ctl]
    /\ inflight' = Late(inflight, TRUE)
    /\ UNCHANGED <<issued, resVars, pureVars>>

\* loadAll(json) called by the application
LoadAll(json) ==
    /\ Len(json) > 1
    /\ Len(ctl.objs) + Len(json) <= MaxObjs
    /\ ctl' = loadAll(ctl, json)
    /\ hist' = [NoHist EXCEPT !.op = "loadAll", !.json = json, !.before = ctl]
    /\ inflight' = Late(inflight, TRUE)
    /\ UNCHANGED <<issued, resVars, pureVars>>

\* clearAll(keepObjectsAlive) called by the application
ClearAll(keepObjectsAlive) ==
    /\ ctl' = clearAll(ctl, keepObjectsAlive)
    /\ hist' = [NoHist EXCEPT !.op = "clearAll", !.before = ctl, !.keep = keepObjectsAlive]
    /\ inflight' = Late(inflight, FALSE)
    /\ UNCHANGED <<issued, resVars, pureVars>>

\* findAll(): the GET is issued, nothing else changes until it settles
FindAll ==
    /\ issued < MaxFindAll
    /\ issued' = issued + 1
    /\ inflight' = inflight \cup {Request(issued + 1)}
    /\ UNCHANGED <<ctl, hist, resVars, pureVars>>

\* a findAll request resolves with the array json: the chained callback runs
FindAllResolve(req, json) ==
    /\ req \in inflight
    /\ Len(ctl.objs) + Len(json) <= MaxObjs
    /\ ctl' = findAllThen(ctl, json)
    /\ inflight' = {[q EXCEPT !.beaten = q.beaten \cup {req.n}, !.late = FALSE] : q \in inflight \ {req}}
    /\ hist' = [NoHist EXCEPT !.op = "findAll", !.json = json, !.before = ctl, !.req = req]
    /\ UNCHANGED <<issued, resVars, pureVars>>

\* a findAll request fails: the callback does not run
FindAllReject(req) ==
    /\ req \in inflight
    /\ inflight' = inflight \ {req}
    /\ hist' = [NoHist EXCEPT !.op = "findAllFailed", !.before = ctl, !.req = req]
    /\ UNCHANGED <<ctl, issued, resVars, pureVars>>

----------------------------------------------------------------------------
(* Values of the variables a specification does not use *)
NoResource == Create({})
NoEvent == [op |-> "none", kind |-> "none", value |-> UNDEF, verdict |-> UNDEF,
            before |-> NoResource, nsent |-> 0, type |-> "", url |-> <<>>, json |-> UNDEF]
NoSent == [n |-> 0, last |-> [op |-> "none"]]
NoHeap == <<>>
Idle == [op |-> "idle", n |-> 0]
NoJson == [k \in {} |-> UNDEF]

\* The controller after construction; the other variables are not used
InitCtl ==
    /\ ctl = InitController
    /\ inflight = {}
    /\ issued = 0
    /\ hist = NoHist
    /\ res = NoResource
    /\ hasValidate = FALSE
    /\ pending = {}
    /\ sent = NoSent
    /\ settled = NoEvent
    /\ src = NoResource
    /\ dst = NoResource
    /\ heap = NoHeap
    /\ arg = NoJson
    /\ pc = Idle

----------------------------------------------------------------------------
(* Ember.ajaxPromise and Ember.ResourceAdapter *)

Num(n) == [t |-> "num", n |-> n]
Text(x) == [t |-> "text", s |-> x]

\* What JSON.stringify keeps of a value: properties holding undefined or a
\* function are dropped
RECURSIVE Clean(_)
Clean(v) ==
    IF v.t = "obj"
    THEN Obj([k \in {j \in DOMAIN v.o : v.o[j].t \notin {"undef", "fn"}} |-> Clean(v.o[k])])
    ELSE v

\* JSON.stringify of the object with own properties f: a text, not the object
JSONstringify(f) == [t |-> "json", v |-> Clean(Obj(f))]

\* JSON.parse: the value a JSON text denotes, or an exception
JSONparse(text) ==
    IF text.t = "json" THEN [ok |-> TRUE, v |-> text.v] ELSE [ok |-> FALSE, v |-> UNDEF]

\* error.status = err.status on the object o
WithStatus(o, status) ==
    Obj([k \in DOMAIN o.o \cup {"status"} |-> IF k = "status" THEN status ELSE o.o[k]])

EmptyObject == Obj([k \in {} |-> UNDEF])
JsonContentType == "Content-Type: application/json"

\* a catch handler that gives every jqXHR without JSON content type back as it is
ajaxPromiseCatchRaw(err) ==
    IF Truthy(err.responseJSON) THEN WithStatus(err.responseJSON, err.status)
    ELSE IF err.getAllResponseHeaders = FN /\ JsonContentType \in err.headers
    THEN LET parsed == JSONparse(err.responseText)
         IN WithStatus(IF parsed.ok THEN parsed.v ELSE EmptyObject, err.status)
    ELSE err

\* the catch handler of Ember.ajaxPromise: the value the promise rejects with
ajaxPromiseCatch(err) ==
    IF Truthy(err.responseJSON) THEN WithStatus(err.responseJSON, err.status)
    ELSE IF err.getAllResponseHeaders = FN
    THEN IF JsonContentType \in err.headers
         THEN LET parsed == JSONparse(err.responseText)
              IN WithStatus(IF parsed.ok THEN parsed.v ELSE EmptyObject, err.status)
         ELSE WithStatus(EmptyObject, err.status)
    ELSE err

\* Ember.ajaxPromise: the defaults set on params before jQuery.ajax(params)
ajaxPromise(params) ==
    [params EXCEPT !.contentType = IF params.contentType = "" THEN "application/json" ELSE @,
                   !.dataType = IF params.dataType = "" THEN "json" ELSE @]

\* Ember.ResourceAdapter._resourceRequest on a resource: the params jQuery.ajax gets
resourceRequest(self, type, data) ==
    LET mutating == type \in {"PUT", "POST"}
    IN ajaxPromise([type |-> type,
                    url |-> resourceUrlOf(self),
                    dataType |-> "json",
                    contentType |-> IF mutating THEN "application/json" ELSE "",
                    data |-> IF mutating /\ data # UNDEF THEN JSONstringify(data.o) ELSE data])

----------------------------------------------------------------------------
(* Ember.Resource: find, save, destroy *)

THIS == [t |-> "this"]

\* saveResource without the call of validate()
saveResourceUnvalidated(self, validates, verdict) ==
    [rejected |-> FALSE, error |-> UNDEF,
     params |-> resourceRequest(self, IF isNew(self) THEN "POST" ELSE "PUT",
                                Obj(serialize(self)))]

\* Ember.Resource.saveResource up to the request: either the rejection of a failed
\* validation or the request to issue. verdict is what validate() returns.
saveResource(self, validates, verdict) ==
    IF validates /\ Truthy(verdict)
    THEN [rejected |-> TRUE, error |-> verdict, params |-> UNDEF]
    ELSE [rejected |-> FALSE, error |-> UNDEF,
          params |-> resourceRequest(self, IF isNew(self) THEN "POST" ELSE "PUT",
                                     Obj(serialize(self)))]

\* the callback saveResource chains on the request
saveResourceThen(self, json) ==
    IF Truthy(json) THEN deserialize(self, json.o) ELSE self

\* the callback findResource chains on the request
findResourceThen(self, json) ==
    IF json = UNDEF THEN self ELSE deserialize(self, json.o)

\* Bodies of successful responses
Responses == { UNDEF,
               Obj([k \in {"id", "name"} |-> IF k = "id" THEN Str("7") ELSE Str("ann")]) }

\* What a request can fail with: a jqXHR, or an exception thrown while sending
JqXHR(responseJSON, headers, responseText, status) ==
    [responseJSON |-> responseJSON, getAllResponseHeaders |-> FN, headers |-> headers,
     responseText |-> responseText, status |-> status]
BadBody == Obj([k \in {"message"} |-> Str("bad")])
Exception == [responseJSON |-> UNDEF, getAllResponseHeaders |-> UNDEF, headers |-> {},
              responseText |-> UNDEF, status |-> UNDEF]
Errors == { JqXHR(BadBody, {JsonContentType}, JSONstringify(BadBody.o), Num(422)),
            JqXHR(UNDEF, {JsonContentType}, JSONstringify(BadBody.o), Num(422)),
            JqXHR(UNDEF, {JsonContentType}, Text("<html>"), Num(500)),
            JqXHR(UNDEF, {"Content-Type: text/html"}, Text("not found"), Num(404)),
            JqXHR(UNDEF, {}, Text(""), Num(0)),
            Exception }

\* the last event is a successful save whose response carried an id
SavedWithId ==
    /\ settled.op = "save"
    /\ settled.kind = "resolved"
    /\ settled.json # UNDEF
    /\ resourceIdField \in DOMAIN settled.json.o
    /\ settled.json.o[resourceIdField] \notin {UNDEF, Str("")}

\* The request handed to jQuery.ajax last: the operation, the params, the resource
\* as it was at the call, and the event the call directly follows (with whether it is
\* a successful save whose response carried an id)
Sent(op, params) ==
    [op |-> op, params |-> params, self |-> res,
     after |-> [op |-> settled.op, kind |-> settled.kind, type |-> settled.type,
                url |-> settled.url, withId |-> SavedWithId]]

Issue(op, params, verdict) ==
    /\ sent.n < MaxSent
    /\ sent' = [n |-> sent.n + 1, last |-> Sent(op, params)]
    /\ pending' = pending \cup {[n |-> sent.n + 1, op |-> op, type |-> params.type,
                                  url |-> params.url]}
    /\ settled' = [NoEvent EXCEPT !.op = op, !.kind = "pending", !.before = res,
                                  !.nsent = sent.n, !.type = params.type,
                                  !.url = params.url, !.verdict = verdict]

\* r.saveResource() where validate(), if defined, returns verdict
SaveResource(verdict) ==
    /\ hasValidate \/ verdict = UNDEF
    /\ LET call == saveResource(res, hasValidate, verdict)
       IN IF call.rejected
          THEN /\ settled' = [NoEvent EXCEPT !.op = "save", !.kind = "rejected",
                                             !.value = call.error, !.verdict = verdict,
                                             !.before = res, !.nsent = sent.n]
               /\ UNCHANGED <<pending, sent>>
          ELSE Issue("save", call.params, verdict)
    /\ UNCHANGED <<res, hasValidate, ctlVars, pureVars>>

\* r.findResource()
FindResource ==
    /\ Issue("find", resourceRequest(res, "GET", UNDEF), UNDEF)
    /\ UNCHANGED <<res, hasValidate, ctlVars, pureVars>>

\* r.destroyResource()
DestroyResource ==
    /\ Issue("destroy", resourceRequest(res, "DELETE", UNDEF), UNDEF)
    /\ UNCHANGED <<res, hasValidate, ctlVars, pureVars>>

\* a request succeeds with body json: the callback chained on it runs
Succeed(req, json) ==
    /\ req \in pending
    /\ pending' = pending \ {req}
    /\ res' = CASE req.op = "save" -> saveResourceThen(res, json)
                [] req.op = "find" -> findResourceThen(res, json)
                [] OTHER -> res
    /\ settled' = [NoEvent EXCEPT !.op = req.op, !.kind = "resolved",
                                  !.value = IF req.op = "destroy" THEN json ELSE THIS,
                                  !.before = res, !.nsent = sent.n,
                                  !.type = req.type, !.url = req.url, !.json = json]
    /\ UNCHANGED <<sent, hasValidate, ctlVars, pureVars>>

\* a request fails with err: the promise rejects with the normalized error
Fail(req, err) ==
    /\ req \in pending
    /\ pending' = pending \ {req}
    /\ settled' = [NoEvent EXCEPT !.op = req.op, !.kind = "rejected",
                                  !.value = ajaxPromiseCatch(err),
                                  !.before = res, !.nsent = sent.n,
                                  !.type = req.type, !.url = req.url, !.json = err]
    /\ UNCHANGED <<res, sent, hasValidate, ctlVars, pureVars>>

\* the application sets a property of the resource
SetProperty(k, v) ==
    /\ res[k] # v
    /\ res' = set(res, k, v)
    /\ settled' = [NoEvent EXCEPT !.op = "set", !.before = res, !.nsent = sent.n]
    /\ UNCHANGED <<pending, sent, hasValidate, ctlVars, pureVars>>

\* A resource, new or with an id, with or without validate(); the other
\* variables are not used
InitRes ==
    /\ res \in {NewContact, set(NewContact, "id", Str("5"))}
    /\ hasValidate \in BOOLEAN
    /\ pending = {}
    /\ sent = NoSent
    /\ settled = NoEvent
    /\ ctl = InitController
    /\ inflight = {}
    /\ issued = 0
    /\ hist = NoHist
    /\ src = NoResource
    /\ dst = NoResource
    /\ heap = NoHeap
    /\ arg = NoJson
    /\ pc = Idle

Verdicts == {UNDEF, Str(""), Str("name is required")}

NextRes ==
    \/ \E verdict \in Verdicts : SaveResource(verdict)
    \/ FindResource
    \/ DestroyResource
    \/ \E req \in pending, json \in Responses : Succeed(req, json)
    \/ \E req \in pending, err \in Errors : Fail(req, err)
    \/ \E v \in {UNDEF, Str("")} : SetProperty("id", v)

SpecRes == InitRes /\ [][NextRes]_vars

\* The last event is a request that failed with the error settled.json
NetworkFailure == settled.kind = "rejected" /\ settled.type # ""

\* C3: when the resource defines validate() and it returns a truthy value, save()
\* issues no request, rejects with exactly that value and leaves the resource as
\* it was.
C3_ValidationRejects ==
    (settled.op = "save" /\ hasValidate /\ settled.verdict \notin {UNDEF, Str("")}) =>
        /\ settled.kind = "rejected"
        /\ settled.value = settled.verdict
        /\ sent.n = settled.nsent
        /\ res = settled.before

\* C3 witness: a save is refused by validate() while an earlier request is in flight.
C3_Witness ==
    /\ settled.op = "save"
    /\ settled.kind = "rejected"
    /\ settled.value = Str("name is required")
    /\ pending # {}

\* C4: a save that passes validation issues POST exactly when the id is empty at
\* the call and PUT otherwise, with the serialized resource as body; a successful
\* save deserializes the response into the resource and returns it, so the save
\* directly after a successful save whose response carried an id issues a PUT.
C4_SaveVerb ==
    /\ (sent.n > 0 /\ sent.last.op = "save") =>
          /\ sent.last.params.type =
                IF sent.last.self["id"] \in {UNDEF, Str("")} THEN "POST" ELSE "PUT"
          /\ sent.last.params.data = JSONstringify(serialize(sent.last.self))
          /\ sent.last.after.withId => sent.last.params.type = "PUT"
    /\ (settled.op = "save" /\ settled.kind = "pending") =>
          /\ sent.n = settled.nsent + 1
          /\ sent.last.op = "save"
    /\ (settled.op = "save" /\ settled.kind = "rejected" /\ settled.type = "") =>
          hasValidate /\ settled.verdict \notin {UNDEF, Str("")}
    /\ (settled.op = "save" /\ settled.kind = "resolved") =>
          /\ settled.value = THIS
          /\ \A k \in Keys :
                res[k] = IF settled.json # UNDEF /\ k \in DOMAIN settled.json.o
                         THEN settled.json.o[k] ELSE settled.before[k]
          /\ SavedWithId => res["id"] \notin {UNDEF, Str("")}

\* C4 witness: a PUT directly after the response of a POST carried an id.
C4_Witness ==
    /\ sent.n > 1
    /\ sent.last.op = "save"
    /\ sent.last.params.type = "PUT"
    /\ sent.last.after.withId
    /\ sent.last.after.type = "POST"

\* C5 as claimed: a failed request rejects with the parsed body plus status when
\* the response has a JSON content type (an empty object plus status when the
\* body does not parse), and with the raw error unchanged otherwise.
C5_RawWhenUnstructured ==
    NetworkFailure =>
        LET err == settled.json
        IN IF JsonContentType \in err.headers
           THEN IF err.responseText.t = "json"
                THEN settled.value = WithStatus(err.responseText.v, err.status)
                ELSE settled.value = WithStatus(EmptyObject, err.status)
           ELSE settled.value = err

\* C5 amended: a failed request rejects with the already parsed body plus status
\* when the error carries one; otherwise, when the error is a jqXHR, with the
\* parsed body plus status if the headers name a JSON content type and the body
\* parses, and with an empty object plus status if the body does not parse or the
\* content type is not JSON (which includes a transport failure); the raw error is
\* passed through only when it is not a jqXHR.
C5_Normalized ==
    NetworkFailure =>
        LET err == settled.json
            json == JsonContentType \in err.headers
            parses == err.responseText.t = "json"
        IN /\ err.responseJSON # UNDEF =>
                settled.value = WithStatus(err.responseJSON, err.status)
           /\ (err.responseJSON = UNDEF /\ err.getAllResponseHeaders = FN /\ json /\ parses) =>
                settled.value = WithStatus(err.responseText.v, err.status)
           /\ (err.responseJSON = UNDEF /\ err.getAllResponseHeaders = FN /\ ~(json /\ parses)) =>
                settled.value = WithStatus(EmptyObject, err.status)
           /\ (err.responseJSON = UNDEF /\ err.getAllResponseHeaders = UNDEF) =>
                settled.value = err

\* C5 witness: a 404 with an HTML body rejects with {status: 404}.
C5_Witness ==
    /\ NetworkFailure
    /\ settled.json = JqXHR(UNDEF, {"Content-Type: text/html"}, Text("not found"), Num(404))
    /\ settled.value = Obj([k \in {"status"} |-> Num(404)])

\* C6: every find, save and destroy request targets the base url followed by "/"
\* and the id when the id is not empty at the call, and the base url alone when
\* it is.
C6_ResourceUrl ==
    sent.n > 0 =>
        sent.last.params.url =
            IF sent.last.self["id"] \in {UNDEF, Str("")} THEN <<"/contacts">>
            ELSE <<"/contacts", "/", sent.last.self["id"].s>>

\* C6 witness: a DELETE to /contacts/7 directly after the resource, saved with a
\* POST to /contacts, got the id 7 from the response.
C6_Witness ==
    /\ sent.n > 1
    /\ sent.last.params.type = "DELETE"
    /\ sent.last.params.url = <<"/contacts", "/", "7">>
    /\ sent.last.after.withId
    /\ sent.last.after.url = <<"/contacts">>

----------------------------------------------------------------------------
(* The controller: application calls and request settlements in any order *)
NextCtl ==
    \/ \E json \in JsonItems : Load(json)
    \/ \E json \in JsonArrays : LoadAll(json)
    \/ \E keepObjectsAlive \in BOOLEAN : ClearAll(keepObjectsAlive)
    \/ FindAll
    \/ \E req \in inflight, json \in JsonArrays : FindAllResolve(req, json)
    \/ \E req \in inflight : FindAllReject(req)

SpecCtl == InitCtl /\ [][NextCtl]_vars

\* The resources of the managed set, in order
Contents(c) == [i \in 1..Len(c.content) |-> c.objs[c.content[i]]]

\* A fresh resource of the controller's type holding exactly the values of json
Matches(r, json) ==
    \A k \in Keys : r[k] = IF k \in DOMAIN json THEN json[k] ELSE NewContact[k]

\* C1: after a findAll request resolves with the array J, the managed set holds
\* exactly Len(J) resources, the i-th holding the values of J[i], in J's order,
\* and none of the resources the set held before the resolution.
C1_FindAllReplaces ==
    hist.op = "findAll" =>
        /\ Len(ctl.content) = Len(hist.json)
        /\ \A i \in 1..Len(ctl.content) : Matches(Contents(ctl)[i], hist.json[i])
        /\ Range(ctl.content) \cap Range(hist.before.content) = {}

\* C1 witness: a findAll resolved with two items over a set that held a resource
\* loaded while the request was in flight.
C1_Witness ==
    /\ hist.op = "findAll"
    /\ Len(hist.json) = 2
    /\ hist.json[1] # hist.json[2]
    /\ hist.req.late

\* C2: when a findAll request resolves after another one that was in flight at the
\* same time, the managed set is the deserialization of this last response alone,
\* whichever of the two was issued first.
C2_LaterResolutionWins ==
    (hist.op = "findAll" /\ hist.req.beaten # {}) =>
        /\ Contents(ctl) = [i \in 1..Len(hist.json) |-> deserialize(NewContact, hist.json[i])]
        /\ \A id \in Range(ctl.content) : id > Len(hist.before.objs)

\* C2 witness: the request issued first resolves last, over the non-empty contents
\* the other response left.
C2_Witness ==
    /\ hist.op = "findAll"
    /\ \E n \in hist.req.beaten : n > hist.req.n
    /\ hist.before.content # <<>>
    /\ Len(hist.json) > 0
    /\ inflight = {}

\* C7: clearAll() tears down every resource the set held and empties the set,
\* clearAll(true) empties it and tears nothing down, and every resource a
\* resolving findAll discards is torn down.
C7_ClearAllTearsDown ==
    /\ (hist.op = "clearAll" /\ ~hist.keep) =>
            ctl.content = <<>> /\ Range(hist.before.content) \subseteq ctl.destroyed
    /\ (hist.op = "clearAll" /\ hist.keep) =>
            ctl.content = <<>> /\ ctl.destroyed = hist.before.destroyed
    /\ hist.op = "findAll" => Range(hist.before.content) \subseteq ctl.destroyed

\* C7 witness: a findAll discards resources while a resource released earlier by
\* clearAll(true) is still alive.
C7_Witness ==
    /\ hist.op = "findAll"
    /\ hist.before.content # <<>>
    /\ \E id \in 1..Len(ctl.objs) : id \notin ctl.destroyed /\ id \notin Range(ctl.content)
                                     /\ id \notin Range(hist.before.content)

----------------------------------------------------------------------------
(* Ember.Resource: copy, serialize, deserialize *)

\* The arrays and objects resources refer to. A cell is an array or an object; elems
\* are the elements of the array, or the values of the object's keys in key order.
Array(elems) == [kind |-> "array", elems |-> elems]
Object(elems) == [kind |-> "object", elems |-> elems]

\* cell 1: the array ["a", cell 3]; cell 2: the object {k1: "b", k2: cell 3};
\* cell 3: the array ["x"]
InitHeap == << Array(<<Str("a"), Ref(3)>>), Object(<<Str("b"), Ref(3)>>), Array(<<Str("x")>>) >>

\* the methods of the type of an instance
Methods(self) == {k \in Keys : self[k] = FN}

\* an aliasing duplicate: the value itself
duplicateAlias(h, propVal) == [v |-> propVal, h |-> h]

\* the body of the loop of duplicateProperties: propVal.slice() for an array,
\* $.extend({}, propVal) for an object, the value itself otherwise
duplicate(h, propVal) ==
    IF propVal.t = "ref" /\ h[propVal.r].kind = "array"
    THEN [v |-> Ref(Len(h) + 1), h |-> Append(h, Array(h[propVal.r].elems))]
    ELSE IF propVal.t = "ref"
    THEN [v |-> Ref(Len(h) + 1), h |-> Append(h, Object(h[propVal.r].elems))]
    ELSE [v |-> propVal, h |-> h]

\* Ember.Resource.duplicateProperties from props[i] on: the instance and the heap
RECURSIVE duplicateFrom(_, _, _, _, _)
duplicateFrom(self, source, props, i, h) ==
    IF i > Len(props) THEN [self |-> self, h |-> h]
    ELSE LET d == duplicate(h, get(source, props[i]))
         IN duplicateFrom(set(self, props[i], d.v), source, props, i + 1, d.h)

duplicateProperties(self, source, h) == duplicateFrom(self, source, resourceProperties, 1, h)

\* Ember.Resource.copy: the copy and the heap
copy(self, h) ==
    LET c == duplicateProperties(Create(Methods(self)), self, h)
    IN [self |-> set(c.self, resourceIdField, get(self, resourceIdField)), h |-> c.h]

\* the cells reachable from the value v
RECURSIVE Reach(_, _)
Reach(h, v) ==
    IF v.t # "ref" THEN {}
    ELSE {v.r} \cup UNION {Reach(h, h[v.r].elems[i]) : i \in 1..Len(h[v.r].elems)}

\* the value v with every reference replaced by what it refers to
RECURSIVE Deep(_, _)
Deep(h, v) ==
    IF v.t # "ref" THEN v
    ELSE [t |-> h[v.r].kind, elems |-> [i \in 1..Len(h[v.r].elems) |-> Deep(h, h[v.r].elems[i])]]

\* JSON objects given to deserialize
Args == { [k \in {"id", "fullName"} |-> IF k = "id" THEN Str("1") ELSE Str("x")],
          [k \in {"name"} |-> Str("bob")],
          [k \in {"name", "prop"} |-> IF k = "name" THEN Str("bob") ELSE Str("p")] }

\* c = r.copy()
Copy ==
    /\ pc.op = "start"
    /\ LET c == copy(src, heap)
       IN dst' = c.self /\ heap' = c.h
    /\ pc' = [op |-> "copy", n |-> 0]
    /\ UNCHANGED <<src, arg, ctlVars, resVars>>

\* the application changes element i of an array or object reachable from a property
\* of the copy, or pushes an element
Mutate(p, r, i, v) ==
    /\ pc.op = "copy"
    /\ pc.n < MaxMutations
    /\ r \in Reach(heap, dst[p])
    /\ i \in 1..(Len(heap[r].elems) + 1)
    /\ i = Len(heap[r].elems) + 1 => heap[r].kind = "array"
    /\ heap' = [heap EXCEPT ![r].elems =
                    IF i > Len(@) THEN Append(@, v) ELSE [@ EXCEPT ![i] = v]]
    /\ pc' = [pc EXCEPT !.n = @ + 1]
    /\ UNCHANGED <<src, dst, arg, ctlVars, resVars>>

\* r.deserialize(json)
Deserialize ==
    /\ pc.op = "start"
    /\ dst' = deserialize(src, arg)
    /\ pc' = [op |-> "deserialize", n |-> 0]
    /\ UNCHANGED <<src, heap, arg, ctlVars, resVars>>

\* type.create().deserialize(r.serialize())
RoundTrip ==
    /\ pc.op = "start"
    /\ dst' = deserialize(Create(Methods(src)), serialize(src))
    /\ pc' = [op |-> "roundtrip", n |-> 0]
    /\ UNCHANGED <<src, heap, arg, ctlVars, resVars>>

\* A resource of a type with any of the methods, with or without id, name and
\* tags, and a JSON object; the other variables are not used
InitPure ==
    /\ \E ms \in SUBSET MethodKeys, id \in {UNDEF, Str("7")}, name \in {UNDEF, Str("ann")},
          tags \in {UNDEF, Ref(1), Ref(2)} :
            src = [Create(ms) EXCEPT !["id"] = id, !["name"] = name, !["tags"] = tags]
    /\ arg \in Args
    /\ heap = InitHeap
    /\ dst = NoResource
    /\ pc = [op |-> "start", n |-> 0]
    /\ ctl = InitController
    /\ inflight = {}
    /\ issued = 0
    /\ hist = NoHist
    /\ res = NoResource
    /\ hasValidate = FALSE
    /\ pending = {}
    /\ sent = NoSent
    /\ settled = NoEvent

NextPure ==
    \/ Copy
    \/ \E p \in Range(resourceProperties), r \in 1..Len(heap), i \in 1..3 :
            Mutate(p, r, i, Str("z"))
    \/ Deserialize
    \/ RoundTrip

SpecPure == InitPure /\ [][NextPure]_vars

Props == Range(resourceProperties)

\* the copy has the type, the id and the values of the source
SameAsSource ==
    /\ Methods(dst) = Methods(src)
    /\ dst["id"] = src["id"]
    /\ \A p \in Props : pc.n = 0 => Deep(heap, dst[p]) = Deep(heap, src[p])

\* C8 as claimed: the copy has the type, the id and the property values of the
\* source, and no mutation of the copy's arrays and objects, nested ones included,
\* changes a property value of the source.
C8_DeepCopy ==
    pc.op = "copy" =>
        /\ SameAsSource
        /\ \A p \in Props : Deep(heap, src[p]) = Deep(InitHeap, src[p])

\* C8 amended: the copy has the type, the id and the property values of the
\* source; its array and object property values are new arrays and objects, so
\* that no mutation through the copy changes the source's own array or object (its
\* length and which elements it holds), while the arrays and objects nested inside
\* are the very ones of the source.
C8_ShallowCopy ==
    pc.op = "copy" =>
        /\ SameAsSource
        /\ \A p \in Props : src[p].t = "ref" =>
              /\ dst[p].t = "ref"
              /\ dst[p].r # src[p].r
              /\ heap[src[p].r] = InitHeap[src[p].r]
              /\ pc.n = 0 => heap[dst[p].r].elems = heap[src[p].r].elems

\* C8 witness: the copy's array was changed and an array nested in it, shared
\* with the source, as well.
C8_Witness ==
    /\ pc.op = "copy"
    /\ src["tags"] = Ref(1)
    /\ heap[dst["tags"].r].elems[1] = Str("z")
    /\ heap[3] # InitHeap[3]

\* C9 as claimed: deserialize(r.serialize()) on a new instance of the type gives
\* every declared property the value it has in r.
C9_RoundTrip ==
    pc.op = "roundtrip" => \A p \in Props : dst[p] = src[p]

\* C9 amended: serialize() nests the values of the declared properties under
\* resourceName and deserialize assigns top-level keys only, so that
\* deserialize(r.serialize()) on a new instance leaves every declared property
\* unset and stores the nested object, which holds r's value for every declared
\* property, under resourceName (or stores nothing, if the instance has a function
\* named prop).
C9_RoundTripNested ==
    pc.op = "roundtrip" =>
        /\ \A p \in Props : dst[p] = UNDEF
        /\ \A k \in Keys \ {resourceName} : dst[k] = Create(Methods(src))[k]
        /\ IF src["prop"] = FN THEN dst[resourceName] = UNDEF
           ELSE /\ dst[resourceName].t = "obj"
                /\ DOMAIN dst[resourceName].o = Props
                /\ \A p \in Props : dst[resourceName].o[p] = src[p]

\* C9 witness: the round trip of a resource with a name and tags.
C9_Witness ==
    /\ pc.op = "roundtrip"
    /\ src["name"] = Str("ann")
    /\ src["tags"] = Ref(1)
    /\ dst[resourceName] # UNDEF

\* C10 as claimed: deserialize(json) assigns json[k] for every key k of json that
\* does not name a method of the instance and skips every key that does, so that
\* no method is overwritten.
C10_MethodsKept ==
    pc.op = "deserialize" =>
        \A k \in DOMAIN arg : dst[k] = IF src[k] = FN THEN FN ELSE arg[k]

====
